---------------------------- MODULE Spec2Model ----------------------------
(***************************************************************************)
(* Model of jira-test-case-gen: the markdown-table parser, the retry loop  *)
(* around the generative-model call, the per-story collection loop and the *)
(* writing of the output table (src/main.py, src/app.py).                  *)
(*                                                                         *)
(* A Python str is a sequence of one-character strings; a Python dict is   *)
(* the sequence of its <<key, value>> items in insertion order.            *)
(***************************************************************************)
EXTENDS Naturals, Sequences, FiniteSets

VARIABLES
    \* ---- parser harness (ParseSpec) ----
    p_src,          \* the input as a sequence of sample-line numbers
    p_text,         \* md_text: the argument of parse_markdown_table
    p_pc,           \* "call" before the call, "ret" after it returned
    p_rows,         \* the returned list of dicts
    \* ---- the program (Spec) ----
    pc,             \* where the run is
    variant,        \* "main" (src/main.py) or "app" (src/app.py)
    export_format,  \* app.py sidebar radio: "Excel" or "CSV"
    issues,         \* the stories of this run, in input order
    idx,            \* position of the for loop over the stories
    attempt,        \* loop variable of generate_test_cases
    trace,          \* outcome of each model.generate_content call of this call
    slept,          \* argument of each time.sleep call of this call
    test_table_md,  \* what generate_test_cases returned
    all_rows,       \* the collected rows
    history,        \* per processed story: what generate_test_cases returned
    files,          \* the output directory: path -> written sheet
    csv_data,       \* app.py: the CSV handed to the download button
    now,            \* the wall clock, in seconds
    runs            \* number of runs started

pvars == <<p_src, p_text, p_pc, p_rows>>
gvars == <<pc, variant, export_format, issues, idx, attempt, trace, slept,
           test_table_md, all_rows, history, files, csv_data, now, runs>>
vars == <<pvars, gvars>>

---------------------------------------------------------------------------
(* Bounds *)
MaxLines == 5
MaxRuns == 2
MaxClock == 1

(* Program constants *)
MAX_RETRIES == 3
RETRY_DELAY == 5

---------------------------------------------------------------------------
(* Python str and dict operations, as the code uses them *)

IsSpace(c) == c \in {" ", "\n"}

RECURSIVE str_lstrip(_)
str_lstrip(s) ==
    IF s # <<>> /\ IsSpace(Head(s)) THEN str_lstrip(Tail(s)) ELSE s

RECURSIVE str_rstrip(_)
str_rstrip(s) ==
    IF s # <<>> /\ IsSpace(s[Len(s)]) THEN str_rstrip(SubSeq(s, 1, Len(s) - 1)) ELSE s

str_strip(s) == str_rstrip(str_lstrip(s))

str_contains(s, c) == \E i \in 1..Len(s) : s[i] = c

RECURSIVE str_split(_, _)
str_split(s, sep) ==
    IF ~str_contains(s, sep) THEN <<s>>
    ELSE LET i == CHOOSE j \in 1..Len(s) : s[j] = sep /\ \A k \in 1..(j - 1) : s[k] # sep
         IN  <<SubSeq(s, 1, i - 1)>> \o str_split(SubSeq(s, i + 1, Len(s)), sep)

RECURSIVE str_replace(_, _, _)
str_replace(s, old, new) ==
    IF Len(s) < Len(old) THEN s
    ELSE IF SubSeq(s, 1, Len(old)) = old
         THEN new \o str_replace(SubSeq(s, Len(old) + 1, Len(s)), old, new)
         ELSE <<Head(s)>> \o str_replace(Tail(s), old, new)

dict_keys(d) == [i \in 1..Len(d) |-> d[i][1]]

dict_has(d, k) == \E i \in 1..Len(d) : d[i][1] = k

dict_get(d, k) == d[CHOOSE i \in 1..Len(d) : d[i][1] = k][2]

\* d[k] = v: an existing key keeps its place, a new key goes last
dict_set(d, k, v) ==
    IF dict_has(d, k)
    THEN [i \in 1..Len(d) |-> IF d[i][1] = k THEN <<k, v>> ELSE d[i]]
    ELSE Append(d, <<k, v>>)

RECURSIVE dict_zip(_, _, _)
dict_zip(d, ks, vs) ==
    IF ks = <<>> \/ vs = <<>> THEN d
    ELSE dict_zip(dict_set(d, Head(ks), Head(vs)), Tail(ks), Tail(vs))

---------------------------------------------------------------------------
(* parse_markdown_table *)

HasPipeAlways(line) == TRUE

HasPipe(line) == str_contains(line, "|")

PipeLines(md_text) ==
    LET kept == SelectSeq(str_split(str_strip(md_text), "\n"), HasPipe)
    IN  [i \in 1..Len(kept) |-> str_strip(kept[i])]

NonEmpty(f) == str_strip(f) # <<>>

FieldsUntrimmed(line) == SelectSeq(str_split(line, "|"), NonEmpty)

Fields(line) ==
    LET kept == SelectSeq(str_split(line, "|"), NonEmpty)
    IN  [i \in 1..Len(kept) |-> str_strip(kept[i])]

DataLinesAfterHeader(lines) == SubSeq(lines, 2, Len(lines))

DataLines(lines) == SubSeq(lines, 3, Len(lines))

AcceptsAtMost(headers, fields) == Len(fields) <= Len(headers)

Accepts(headers, fields) == Len(fields) = Len(headers)

RECURSIVE ParseRows(_, _)
ParseRows(headers, lines) ==
    IF lines = <<>> THEN <<>>
    ELSE LET fields == Fields(Head(lines))
         IN  (IF Accepts(headers, fields) THEN <<dict_zip(<<>>, headers, fields)>> ELSE <<>>)
             \o ParseRows(headers, Tail(lines))

parse_markdown_table(md_text) ==
    LET lines == PipeLines(md_text)
    IN  IF Len(lines) < 2 THEN <<>>
        ELSE ParseRows(Fields(lines[1]), DataLines(lines))

---------------------------------------------------------------------------
(* Inputs of the parser harness: texts made of these lines *)

SampleNumbers == 1..7

SampleLine(n) ==
    CASE n = 1 -> <<"a", "|", "b">>
      [] n = 2 -> <<" ", "|", "b", " ", "|", " ", "a", "|">>
      [] n = 3 -> <<"-", "|", "-">>
      [] n = 4 -> <<"a">>
      [] n = 5 -> <<"a", "|">>
      [] n = 6 -> <<"a", "|", "|", "b">>
      [] n = 7 -> <<"a", "|", "a">>

RECURSIVE JoinLines(_)
JoinLines(src) ==
    IF src = <<>> THEN <<>>
    ELSE IF Len(src) = 1 THEN SampleLine(src[1])
    ELSE SampleLine(Head(src)) \o <<"\n">> \o JoinLines(Tail(src))

Sources == UNION {[1..n -> SampleNumbers] : n \in 0..MaxLines}

ParseCall ==
    /\ p_pc = "call"
    /\ p_rows' = parse_markdown_table(p_text)
    /\ p_pc' = "ret"
    /\ UNCHANGED <<p_src, p_text>>

ParseNext == ParseCall /\ UNCHANGED gvars

---------------------------------------------------------------------------
(* clean_html_br_tags_and_strip and the table that is written *)

\* the third spelling of the tag forgotten
clean_two_spellings(text) ==
    IF text = <<>> THEN text
    ELSE str_strip(
           str_replace(
             str_replace(text, <<"<", "b", "r", ">">>, <<"\n">>),
             <<"<", "b", "r", "/", ">">>, <<"\n">>))

clean_html_br_tags_and_strip(text) ==
    IF text = <<>> THEN text
    ELSE str_strip(
           str_replace(
             str_replace(
               str_replace(text, <<"<", "b", "r", ">">>, <<"\n">>),
               <<"<", "b", "r", "/", ">">>, <<"\n">>),
             <<"<", "b", "r", " ", "/", ">">>, <<"\n">>))

\* for row in rows: for key, value in row.items(): row[key] = clean(value)
CleanRows(rows) ==
    [i \in 1..Len(rows) |->
        [j \in 1..Len(rows[i]) |->
            <<rows[i][j][1], clean_html_br_tags_and_strip(rows[i][j][2])>>]]

RECURSIVE AddColumns(_, _)
AddColumns(cols, ks) ==
    IF ks = <<>> THEN cols
    ELSE AddColumns(IF \E i \in 1..Len(cols) : cols[i] = Head(ks)
                    THEN cols ELSE Append(cols, Head(ks)),
                    Tail(ks))

RECURSIVE Columns(_, _)
Columns(cols, rows) ==
    IF rows = <<>> THEN cols
    ELSE Columns(AddColumns(cols, dict_keys(Head(rows))), Tail(rows))

\* pd.DataFrame(rows) written with index=False: the columns are the keys in
\* order of first appearance, a key a row lacks is NaN, written as an empty cell
WriteTable(rows) ==
    LET cols == Columns(<<>>, rows)
    IN  [header |-> cols,
         body   |-> [i \in 1..Len(rows) |->
                       [j \in 1..Len(cols) |->
                          IF dict_has(rows[i], cols[j])
                          THEN dict_get(rows[i], cols[j]) ELSE <<>>]]]

NoTable == [header |-> <<>>, body |-> <<>>]

\* os.path.join(OUTPUT_DIR, FILENAME) and the timestamped name of main.py
AppPath == <<"output/jira_test_cases.xlsx">>
MainPath(ts) == <<"output/jira_test_cases_", ts, ".xlsx">>

\* an existing file is left as it is
WriteFileOnce(dir, path, table) ==
    [q \in (DOMAIN dir) \cup {path} |-> IF q \in DOMAIN dir THEN dir[q] ELSE table]

WriteFile(dir, path, table) ==
    [q \in (DOMAIN dir) \cup {path} |-> IF q = path THEN table ELSE dir[q]]

NoFiles == [q \in {} |-> NoTable]

---------------------------------------------------------------------------
(* Inputs of the program: the stories and the texts the model returns *)

JiraIdKey == <<"J", "i", "r", "a", " ", "I", "D">>
SummaryKey == <<"S", "t", "o", "r", "y", " ", "S", "u", "m", "m", "a", "r", "y">>

StoryA == [key |-> <<"A">>, summary |-> <<"s", "<", "b", "r", ">">>]
StoryB == [key |-> <<"B">>, summary |-> <<"t">>]
Stories == {StoryA, StoryB}

\* the issue tracker returns, and the multiselect holds, distinct stories
IssueLists ==
    {is \in UNION {[1..n -> Stories] : n \in 0..Cardinality(Stories)} :
        \A i, j \in 1..Len(is) : is[i] = is[j] => i = j}

Response1 == <<"a", "|", "b", "\n", "-", "|", "-", "\n", "c", "|", "d", "\n",
               "e", "|", "f", "<", "b", "r", " ", "/", ">">>
Response2 == <<"|", "a", "|", "\n", "|", "-", "|", "\n",
               "|", "x", "<", "b", "r", "/", ">", "y", "|">>
Responses == {Response1, Response2}

---------------------------------------------------------------------------
(* The program *)

ProgramInit ==
    /\ pc = "idle"
    /\ variant = "main"
    /\ export_format = "Excel"
    /\ issues = <<>>
    /\ idx = 1
    /\ attempt = 1
    /\ trace = <<>>
    /\ slept = <<>>
    /\ test_table_md = <<>>
    /\ all_rows = <<>>
    /\ history = <<>>
    /\ files = NoFiles
    /\ csv_data = NoTable
    /\ now = 0
    /\ runs = 0

Init ==
    /\ p_src = <<>> /\ p_text = <<>> /\ p_pc = "off" /\ p_rows = <<>>
    /\ ProgramInit

\* a run of main.py, or a press of the Generate button of app.py
StartRun ==
    /\ pc \in {"idle", "done"}
    /\ runs < MaxRuns
    /\ \E v \in {"main", "app"}, f \in {"Excel", "CSV"}, is \in IssueLists :
         /\ v = "main" => f = "Excel"
         /\ variant' = v
         /\ export_format' = f
         /\ issues' = is
         /\ pc' = IF v = "app" /\ is = <<>> THEN "done" ELSE "loop"
    /\ runs' = runs + 1
    /\ idx' = 1
    /\ attempt' = 1
    /\ trace' = <<>>
    /\ slept' = <<>>
    /\ test_table_md' = <<>>
    /\ all_rows' = <<>>
    /\ history' = <<>>
    /\ csv_data' = NoTable
    /\ UNCHANGED <<files, now>>

\* the head of the for loop over the stories; entering generate_test_cases
NextIssue ==
    /\ pc = "loop"
    /\ IF idx <= Len(issues)
       THEN /\ pc' = "gen"
            /\ attempt' = 1
            /\ trace' = <<>>
            /\ slept' = <<>>
       ELSE /\ pc' = "save"
            /\ UNCHANGED <<attempt, trace, slept>>
    /\ UNCHANGED <<variant, export_format, issues, idx, test_table_md, all_rows,
                   history, files, csv_data, now, runs>>

\* model.generate_content(prompt_text) returns and response.text is returned
AttemptOk ==
    /\ pc = "gen"
    /\ \E r \in Responses :
         /\ trace' = Append(trace, [ok |-> TRUE, text |-> r])
         /\ test_table_md' = r
    /\ pc' = "parse"
    /\ UNCHANGED <<variant, export_format, issues, idx, attempt, slept, all_rows,
                   history, files, csv_data, now, runs>>

\* the last failure is raised again instead of returning ""
AttemptFailRaise ==
    /\ pc = "gen"
    /\ trace' = Append(trace, [ok |-> FALSE, text |-> <<>>])
    /\ pc' = IF attempt < MAX_RETRIES THEN "sleep" ELSE "raised"
    /\ UNCHANGED <<variant, export_format, issues, idx, attempt, slept, all_rows,
                   test_table_md, history, files, csv_data, now, runs>>

\* model.generate_content (or response.text) raises; the except clause
AttemptFail ==
    /\ pc = "gen"
    /\ trace' = Append(trace, [ok |-> FALSE, text |-> <<>>])
    /\ IF attempt < MAX_RETRIES
       THEN /\ pc' = "sleep"
            /\ UNCHANGED test_table_md
       ELSE /\ pc' = "parse"
            /\ test_table_md' = <<>>
    /\ UNCHANGED <<variant, export_format, issues, idx, attempt, slept, all_rows,
                   history, files, csv_data, now, runs>>

\* a delay that grows with the attempt
SleepBackoff ==
    /\ pc = "sleep"
    /\ slept' = Append(slept, RETRY_DELAY * attempt)
    /\ attempt' = attempt + 1
    /\ pc' = "gen"
    /\ UNCHANGED <<variant, export_format, issues, idx, trace, test_table_md,
                   all_rows, history, files, csv_data, now, runs>>

\* time.sleep(RETRY_DELAY), then the next iteration of the for loop
Sleep ==
    /\ pc = "sleep"
    /\ slept' = Append(slept, RETRY_DELAY)
    /\ attempt' = attempt + 1
    /\ pc' = "gen"
    /\ UNCHANGED <<variant, export_format, issues, idx, trace, test_table_md,
                   all_rows, history, files, csv_data, now, runs>>

Inject(row, issue) ==
    dict_set(dict_set(row, JiraIdKey, issue.key), SummaryKey, issue.summary)

InjectAll(case_rows, issue) ==
    [i \in 1..Len(case_rows) |-> Inject(case_rows[i], issue)]

\* the new rows put in front
CollectInFront(rows, case_rows, issue) == InjectAll(case_rows, issue) \o rows

Collect(rows, case_rows, issue) == rows \o InjectAll(case_rows, issue)

\* the loop over the stories left when a story was abandoned
ParseAndCollectStop ==
    /\ pc = "parse"
    /\ all_rows' = Collect(all_rows, parse_markdown_table(test_table_md), issues[idx])
    /\ history' = Append(history, test_table_md)
    /\ idx' = IF test_table_md = <<>> THEN Len(issues) + 1 ELSE idx + 1
    /\ pc' = "loop"
    /\ attempt' = 1 /\ trace' = <<>> /\ slept' = <<>>
    /\ UNCHANGED <<variant, export_format, issues, test_table_md, files,
                   csv_data, now, runs>>

\* case_rows = parse_markdown_table(test_table_md) and the loop over case_rows
ParseAndCollect ==
    /\ pc = "parse"
    /\ all_rows' = Collect(all_rows, parse_markdown_table(test_table_md), issues[idx])
    /\ history' = Append(history, test_table_md)
    /\ idx' = idx + 1
    /\ pc' = "loop"
    /\ attempt' = 1 /\ trace' = <<>> /\ slept' = <<>>   \* locals of the call, gone
    /\ UNCHANGED <<variant, export_format, issues, test_table_md, files,
                   csv_data, now, runs>>

\* save_to_excel(all_rows, FILENAME) of main.py
SaveMain ==
    /\ pc = "save"
    /\ variant = "main"
    /\ IF all_rows # <<>>
       THEN /\ all_rows' = CleanRows(all_rows)
            /\ \E ts \in now..MaxClock :
                 /\ now' = ts
                 /\ files' = WriteFile(files, MainPath(ts), WriteTable(all_rows'))
       ELSE UNCHANGED <<all_rows, now, files>>
    /\ pc' = "done"
    /\ UNCHANGED <<variant, export_format, issues, idx, attempt, trace, slept,
                   test_table_md, history, csv_data, runs>>

\* the branch of the button handler of app.py after generate_all_test_cases
SaveApp ==
    /\ pc = "save"
    /\ variant = "app"
    /\ IF all_rows # <<>>
       THEN /\ all_rows' = CleanRows(all_rows)
            /\ IF export_format = "Excel"
               THEN /\ files' = WriteFile(files, AppPath, WriteTable(all_rows'))
                    /\ UNCHANGED csv_data
               ELSE /\ csv_data' = WriteTable(all_rows')
                    /\ UNCHANGED files
       ELSE UNCHANGED <<all_rows, files, csv_data>>
    /\ pc' = "done"
    /\ UNCHANGED <<variant, export_format, issues, idx, attempt, trace, slept,
                   test_table_md, history, now, runs>>

Next ==
    /\ \/ StartRun
       \/ NextIssue
       \/ AttemptOk
       \/ AttemptFail
       \/ Sleep
       \/ ParseAndCollect
       \/ SaveMain
       \/ SaveApp
    /\ UNCHANGED pvars

Spec == Init /\ [][Next]_vars

\* the blocking call of the model returns or raises, and a sleep ends
FairSpec ==
    /\ Spec
    /\ WF_vars((AttemptOk \/ AttemptFail) /\ UNCHANGED pvars)
    /\ WF_vars(Sleep /\ UNCHANGED pvars)

\* parse_markdown_table alone, on every text of up to MaxLines sample lines
ParseInit ==
    /\ p_src \in Sources
    /\ p_text = JoinLines(p_src)
    /\ p_pc = "call"
    /\ p_rows = <<>>
    /\ ProgramInit

ParseSpec == ParseInit /\ [][ParseNext]_vars

---------------------------------------------------------------------------
(* The parser's claims.  What each sample line is, written out by hand:    *)
(* whether it holds a pipe, its trimmed non-empty fields, and whether it   *)
(* is a separator line.                                                    *)

SamplePipe(n) == n \in {1, 2, 3, 5, 6, 7}

SampleSeparator(n) == n = 3

SampleCells(n) ==
    CASE n = 1 -> << <<"a">>, <<"b">> >>
      [] n = 2 -> << <<"b">>, <<"a">> >>
      [] n = 3 -> << <<"-">>, <<"-">> >>
      [] n = 4 -> << <<"a">> >>
      [] n = 5 -> << <<"a">> >>
      [] n = 6 -> << <<"a">>, <<"b">> >>
      [] n = 7 -> << <<"a">>, <<"a">> >>

Count(n) == Len(SampleCells(n))

\* the input is a table: header, separator, data lines of the header's width
IsTable(src) ==
    /\ Len(src) >= 2
    /\ \A i \in 1..Len(src) : SamplePipe(src[i])
    /\ SampleSeparator(src[2])
    /\ \A i \in 3..Len(src) : Count(src[i]) = Count(src[1])

NameSet(h) == {h[k] : k \in 1..Len(h)}

\* row maps the k-th header name to the k-th field
RowByPosition(row, h, c) ==
    /\ NameSet(dict_keys(row)) = NameSet(h)
    /\ \A k \in 1..Len(h) : dict_has(row, h[k]) /\ dict_get(row, h[k]) = c[k]

LastColumn(h, name) ==
    CHOOSE k \in 1..Len(h) : h[k] = name /\ \A m \in (k + 1)..Len(h) : h[m] # name

\* row has one key per distinct header name, holding the field of the last
\* column of that name
RowByName(row, h, c) ==
    /\ NameSet(dict_keys(row)) = NameSet(h)
    /\ Len(row) = Cardinality(NameSet(h))
    /\ \A k \in 1..Len(h) :
         dict_has(row, h[k]) /\ dict_get(row, h[k]) = c[LastColumn(h, h[k])]

PipeSamples(src) == SelectSeq(src, SamplePipe)

\* the lines after the second pipe line whose width is the header's
Accepted(src) ==
    LET pl == PipeSamples(src)
        SameWidth(n) == Count(n) = Count(pl[1])
    IN  SelectSeq(SubSeq(pl, 3, Len(pl)), SameWidth)

\* C1 as stated: on a table of M data lines of the header's width, M rows in
\* order, each mapping the k-th header name to the trimmed k-th field
C1_RowsByPosition ==
    (p_pc = "ret" /\ IsTable(p_src)) =>
        /\ Len(p_rows) = Len(p_src) - 2
        /\ \A i \in 1..Len(p_rows) :
             RowByPosition(p_rows[i], SampleCells(p_src[1]), SampleCells(p_src[i + 2]))

\* C1 amended: on a table of M data lines of the header's width, M rows in
\* order, each keyed by the distinct header names, a name mapped to the
\* trimmed field of the last column carrying it (the k-th field when the
\* header names are distinct)
C1_RowsByName ==
    (p_pc = "ret" /\ IsTable(p_src)) =>
        /\ Len(p_rows) = Len(p_src) - 2
        /\ \A i \in 1..Len(p_rows) :
             /\ RowByName(p_rows[i], SampleCells(p_src[1]), SampleCells(p_src[i + 2]))
             /\ Cardinality(NameSet(SampleCells(p_src[1]))) = Count(p_src[1])
                  => RowByPosition(p_rows[i], SampleCells(p_src[1]),
                                   SampleCells(p_src[i + 2]))

C1_Witness ==
    /\ p_pc = "ret" /\ IsTable(p_src)
    /\ Len(p_src) = 4 /\ p_src[1] = 1 /\ p_src[3] = 2 /\ p_src[4] = 6
    /\ Len(p_rows) = 2

\* C2: a line after the second pipe line yields a row if and only if it has
\* as many non-empty fields as the header; the other lines are dropped and
\* the rows of the accepted ones come out in order
C2_AcceptIffSameWidth ==
    (p_pc = "ret" /\ Len(PipeSamples(p_src)) >= 2) =>
        LET acc == Accepted(p_src)
        IN  /\ Len(p_rows) = Len(acc)
            /\ \A i \in 1..Len(p_rows) :
                 RowByName(p_rows[i], SampleCells(PipeSamples(p_src)[1]),
                           SampleCells(acc[i]))

\* an accepted line, a dropped line with an empty cell, an accepted line
C2_Witness ==
    /\ p_pc = "ret"
    /\ p_src = <<1, 3, 2, 5, 6>>
    /\ Len(p_rows) = 2

\* C3: fewer than two pipe lines (the empty text included) give no rows
C3_FewPipeLinesEmpty ==
    (p_pc = "ret" /\ Len(PipeSamples(p_src)) < 2) => p_rows = <<>>

C3_Witness ==
    /\ p_pc = "ret"
    /\ Len(PipeSamples(p_src)) = 1
    /\ Len(p_src) >= 3
    /\ p_rows = <<>>

\* C10: the first pipe line is the header and the second is skipped whatever
\* it holds; a separator line further down is a row when its width fits
C10_HeaderAndSkipByPosition ==
    (p_pc = "ret" /\ Len(PipeSamples(p_src)) >= 2) =>
        LET pl == PipeSamples(p_src)
            acc == Accepted(p_src)
        IN  /\ Len(p_rows) = Len(acc)
            /\ Len(p_rows) <= Len(pl) - 2
            /\ \A i \in 1..Len(p_rows) :
                 /\ NameSet(dict_keys(p_rows[i])) = NameSet(SampleCells(pl[1]))
                 /\ SampleSeparator(acc[i]) =>
                      \A j \in 1..Len(p_rows[i]) : p_rows[i][j][2] = <<"-">>

\* no separator: the first data line is lost, and a separator in third place
\* comes back as a row
C10_Witness ==
    /\ p_pc = "ret"
    /\ Len(p_src) = 3 /\ p_src[1] = 1 /\ p_src[2] = 2 /\ p_src[3] = 3
    /\ Len(p_rows) = 1

---------------------------------------------------------------------------
(* The program's claims.  The rows each model response stands for, written *)
(* out by hand.                                                            *)

ResponseRows(md) ==
    CASE md = Response1 ->
           << << << <<"a">>, <<"c">> >>, << <<"b">>, <<"d">> >> >>,
              << << <<"a">>, <<"e">> >>,
                 << <<"b">>, <<"f", "<", "b", "r", " ", "/", ">">> >> >> >>
      [] md = Response2 ->
           << << << <<"a">>, <<"x", "<", "b", "r", "/", ">", "y">> >> >> >>
      [] OTHER -> <<>>

\* the rows of one story: its response's rows, each followed by the two
\* injected items
StoryRows(issue, md) ==
    [i \in 1..Len(ResponseRows(md)) |->
        ResponseRows(md)[i] \o << <<JiraIdKey, issue.key>>, <<SummaryKey, issue.summary>> >>]

RECURSIVE RunRows(_, _)
RunRows(is, mds) ==
    IF is = <<>> \/ mds = <<>> THEN <<>>
    ELSE StoryRows(Head(is), Head(mds)) \o RunRows(Tail(is), Tail(mds))

Collecting == pc \in {"loop", "gen", "sleep", "parse", "save"}

\* C4: generate_test_cases returns the text of the first attempt that
\* succeeded, returns "" when all MAX_RETRIES attempts failed, never raises
C4_ReturnsFirstSuccessOrEmpty ==
    /\ pc # "raised"
    /\ pc = "parse" =>
         LET oks == {i \in 1..Len(trace) : trace[i].ok}
         IN  IF oks # {}
             THEN test_table_md = trace[CHOOSE i \in oks : \A j \in oks : i <= j].text
             ELSE Len(trace) = MAX_RETRIES /\ test_table_md = <<>>

C4_Witness ==
    /\ pc = "parse"
    /\ Len(trace) = MAX_RETRIES
    /\ \A i \in 1..Len(trace) : ~trace[i].ok
    /\ test_table_md = <<>>

InCall == pc \in {"gen", "sleep", "parse"}

RetryBounded ==
    InCall =>
        /\ Len(trace) <= MAX_RETRIES
        /\ \A i \in 1..(Len(trace) - 1) : ~trace[i].ok
        /\ \A i \in 1..Len(slept) : slept[i] = RETRY_DELAY
        /\ pc = "gen" => Len(trace) = attempt - 1 /\ Len(slept) = Len(trace)
        /\ pc = "sleep" => Len(trace) = attempt /\ Len(slept) = Len(trace) - 1
        /\ pc = "parse" => Len(slept) = Len(trace) - 1

\* C5: per call at most MAX_RETRIES invocations, none after a success, a
\* delay of RETRY_DELAY after each failed attempt that another follows and
\* none after the last, and the call returns
C5_BoundedLinearRetry ==
    /\ []RetryBounded
    /\ (pc = "gen") ~> (pc = "parse")

C5_Witness ==
    /\ pc = "parse"
    /\ Len(trace) = MAX_RETRIES
    /\ slept = <<RETRY_DELAY, RETRY_DELAY>>

\* C6: while story idx is worked on, the stories before it are finished and
\* nothing later was touched; the collected rows are the stories' rows in
\* story order, each with the key and summary of its own story
C6_OneStoryAtATime ==
    Collecting =>
        /\ Len(history) = idx - 1
        /\ idx <= Len(issues) + 1
        /\ InCall => idx <= Len(issues)
        /\ pc = "save" => idx = Len(issues) + 1
        /\ all_rows = RunRows(SubSeq(issues, 1, idx - 1), history)

C6_Witness ==
    /\ pc = "save"
    /\ Len(issues) = 2
    /\ history = <<Response1, Response2>>
    /\ Len(all_rows) = 3

Kept(seq) ==
    LET idxs == [i \in 1..Len(history) |-> i]
        NotAbandoned(i) == history[i] # <<>>
        kept == SelectSeq(idxs, NotAbandoned)
    IN  [i \in 1..Len(kept) |-> seq[kept[i]]]

\* C9: when the loop is over every story was processed, an abandoned story
\* left no row, and the rows are those of the run without the abandoned
\* stories
C9_AbandonedStoryLeavesOthers ==
    pc = "save" =>
        /\ Len(history) = Len(issues)
        /\ all_rows = RunRows(Kept(issues), Kept(history))
        /\ \A k \in 1..Len(history) :
             history[k] = <<>> =>
                \A i \in 1..Len(all_rows) :
                    dict_get(all_rows[i], JiraIdKey) # issues[k].key

C9_Witness ==
    /\ pc = "save"
    /\ Len(issues) = 2
    /\ history[1] = <<>>
    /\ history[2] = Response1
    /\ Len(all_rows) = 2

\* the table the save step has just written
Written ==
    IF variant = "app" /\ export_format = "CSV" THEN csv_data
    ELSE IF variant = "app" THEN files[AppPath]
    ELSE files[MainPath(now)]

Cell(t, i, key) == t.body[i][CHOOSE j \in 1..Len(t.header) : t.header[j] = key]

HasColumn(t, key) == \E j \in 1..Len(t.header) : t.header[j] = key

BrTags == {<<"<", "b", "r", ">">>, <<"<", "b", "r", "/", ">">>,
           <<"<", "b", "r", " ", "/", ">">>}

HasBrTag(v) ==
    \E tag \in BrTags : \E i \in 1..Len(v) :
        i + Len(tag) - 1 <= Len(v) /\ SubSeq(v, i, i + Len(tag) - 1) = tag

Trimmed(v) == v = <<>> \/ (~IsSpace(v[1]) /\ ~IsSpace(v[Len(v)]))

\* C7 as stated: each written value is the string of the collected row
C7_WrittenVerbatim ==
    [][(pc = "save" /\ all_rows # <<>>) =>
          /\ Len(Written'.body) = Len(all_rows)
          /\ \A i \in 1..Len(all_rows) : \A j \in 1..Len(all_rows[i]) :
                /\ HasColumn(Written', all_rows[i][j][1])
                /\ Cell(Written', i, all_rows[i][j][1]) = all_rows[i][j][2]]_vars

\* C7 amended: rows are written in collection order and each written value
\* is clean_html_br_tags_and_strip of the collected string: no <br>, <br/>
\* or <br /> and no surrounding white space is left, and a collected string
\* that has neither is written as it is
C7_WrittenCleaned ==
    [][(pc = "save" /\ all_rows # <<>>) =>
          /\ Len(Written'.body) = Len(all_rows)
          /\ \A i \in 1..Len(all_rows) : \A j \in 1..Len(all_rows[i]) :
                LET v == all_rows[i][j][2]
                IN  /\ HasColumn(Written', all_rows[i][j][1])
                    /\ LET w == Cell(Written', i, all_rows[i][j][1])
                       IN  /\ w = clean_html_br_tags_and_strip(v)
                           /\ ~HasBrTag(w)
                           /\ Trimmed(w)
                           /\ (~HasBrTag(v) /\ Trimmed(v)) => w = v]_vars

WrittenTables == {files[q] : q \in DOMAIN files} \cup {csv_data}

\* a written value that differs from the collected one
C7_Witness ==
    /\ pc = "done"
    /\ \E t \in WrittenTables : \E i \in 1..Len(t.body) : \E j \in 1..Len(t.header) :
          t.body[i][j] = <<"x", "\n", "y">>

\* C8 as stated: after a run that produced rows there is exactly one output
\* file and it holds that run's rows
C8_SingleFile ==
    (pc = "done" /\ all_rows # <<>>) =>
        /\ Cardinality(DOMAIN files) = 1
        /\ \A q \in DOMAIN files : files[q] = WriteTable(all_rows)

RunWroteItsFile ==
    (pc = "done" /\ all_rows # <<>>) =>
        /\ (variant = "app" /\ export_format = "Excel") =>
              AppPath \in DOMAIN files /\ files[AppPath] = WriteTable(all_rows)
        /\ variant = "main" =>
              MainPath(now) \in DOMAIN files /\ files[MainPath(now)] = WriteTable(all_rows)

OnlySaveWrites ==
    files' # files =>
        /\ pc = "save" /\ all_rows # <<>>
        /\ ~(variant = "app" /\ export_format = "CSV")
        /\ LET path == IF variant = "app" THEN AppPath ELSE MainPath(now')
           IN  /\ DOMAIN files' = (DOMAIN files) \cup {path}
               /\ \A q \in DOMAIN files : q # path => files'[q] = files[q]

\* C8 amended: the output directory is the only state that outlives a run.
\* app.py with Excel export writes one fixed path, overwritten by each such
\* run that produced rows, so it holds the rows of the latest one; main.py
\* writes a file named by the run's time stamp and leaves the files of runs at
\* other time stamps in place; a CSV export and a run without rows write no file
C8_OutputFiles ==
    /\ []RunWroteItsFile
    /\ [][OnlySaveWrites]_vars

\* two runs, two files
C8_Witness ==
    /\ pc = "done"
    /\ all_rows # <<>>
    /\ Cardinality(DOMAIN files) = 2

===========================================================================
